---- MODULE Spec2Model ----
(***************************************************************************)
(* A model of the GA3C actor-learner worker (ProcessAgent.py): the reward  *)
(* accumulator, the prediction request/response protocol, the segmented    *)
(* episode loop of run_episode and the episode loop of run.                *)
(*                                                                         *)
(* Numbers are integers: rewards, value estimates and the discount factor  *)
(* are drawn from small integer sets, and the arithmetic of the code       *)
(* (discount * running + clipped reward) is carried out exactly.           *)
(* Python lists are sequences; python index t is TLA+ index t+1.           *)
(***************************************************************************)
EXTENDS Integers, Sequences, FiniteSets, TLC

\* ------------------------------------------------------------------ bounds
\* longest window handed to the accumulator in SpecAcc
MaxWin == 3
\* most action steps of one episode before the environment reports termination
MaxEpLen == 4
\* the episodes of one worker that may last more than one action step; every
\* episode it starts after these ends on its first action step
MaxEpisodes == 2
\* largest segment cap Config.TIME_MAX tried
MaxTimeMax == 2
\* the same two for the runs with several workers
ConcEpLen == 2
ConcEpisodes == 1
\* the same two for the runs under fair scheduling
ShutEpLen == 2
ShutEpisodes == 1
\* capacity of the training and episode-log queues
QueueCap == 1
\* most actions, and the largest weight of one action, in the prediction
\* vectors select_action is tried on
MaxActions == 3
MaxWeight == 2

\* ------------------------------------------------------------ input sets
\* raw rewards the environment hands out / the accumulator is tried on
AccRewards == -2 .. 2
EnvRewards == {0, 3}
\* value estimates
AccValues == {-3, 0, 7}
\* the workers of the runs with several workers
ConcWorkers == {1, 2}
\* discount factors (Config.DISCOUNT)
Discounts == {0, 1, 2}
\* (REWARD_MIN, REWARD_MAX) pairs
ClipBounds == {<<-1, 1>>}

\* python's None where an observation is expected (line 124); observations are
\* numbered from 100
None == -1
\* python's None where an array or a tuple is expected (lines 85-86)
Absent == [some |-> FALSE]
Some(x) == [some |-> TRUE, val |-> x]

VARIABLES
  cfg,            \* Config: TIME_MAX, MAX_STEPS, DISCOUNT, REWARD_CLIPPING, ...
  bnd,            \* the bounds of this run: ep_len, episodes, rewards
  acc,            \* one call of _accumulate_rewards: arguments and result
  pc,             \* pc[w]: where worker w stands in run / run_episode / predict
  exit_flag,      \* exit_flag[w]: the worker's Value('i', 0)
  total_steps, total_reward, total_length,      \* locals of run
  is_running, experiences, time_count, reward_sum,
  lstm_input_p, lstm_input_t, value, yielded,   \* locals of run_episode
  env,            \* env[w]: the worker's Environment
  wait_q,         \* wait_q[w]: the worker's private response queue
  prediction_q, training_q, episode_log_q,      \* the shared queues
  server,         \* requests the prediction service has taken and not answered
  hist            \* hist[w]: history of what the worker did (for the properties)

vars == <<cfg, bnd, acc, pc, exit_flag, total_steps, total_reward, total_length,
          is_running, experiences, time_count, reward_sum, lstm_input_p,
          lstm_input_t, value, yielded, env, wait_q, prediction_q, training_q,
          episode_log_q, server, hist>>

workerVars == <<pc, exit_flag, total_steps, total_reward, total_length,
          is_running, experiences, time_count, reward_sum, lstm_input_p,
          lstm_input_t, value, yielded, env, wait_q, prediction_q, training_q,
          episode_log_q, server, hist>>

\* ------------------------------------------------------------- Experience
Experience(state, action, prediction, reward) ==
  [state |-> state, action |-> action, prediction |-> prediction, reward |-> reward]

Min(a, b) == IF a < b THEN a ELSE b
Max(a, b) == IF a > b THEN a ELSE b

\* np.clip(x, lo, hi)
Clip(x, lo, hi) == Min(Max(x, lo), hi)

\* line 61 / 70: the reward that enters the recurrence
ClippedReward(r) ==
  IF cfg.REWARD_CLIPPING THEN Clip(r, cfg.REWARD_MIN, cfg.REWARD_MAX) ELSE r

\* the backward loop of lines 60-63 / 69-72: python t runs from last-1 down to 0,
\* here index t = last down to 1
RECURSIVE BackwardScan(_, _, _, _)
BackwardScan(exps, t, running, discount_factor) ==
  IF t < 1 THEN exps
  ELSE LET r == ClippedReward(exps[t].reward)
           rs == discount_factor * running + r
       IN BackwardScan([exps EXCEPT ![t].reward = rs], t - 1, rs, discount_factor)

\* experiences[:-1], and the faulty variant that drops nothing
WholeList(s) == s

AllButLast(s) == IF Len(s) = 0 THEN s ELSE SubSeq(s, 1, Len(s) - 1)

\* faulty variants of _accumulate_rewards: the running branch scanning the last
\* element too, and the terminal branch seeded with the bootstrap value
AccumulateScansTrailer(exps, discount_factor, v, running) ==
  IF running
  THEN LET m == BackwardScan(exps, Len(exps), v, discount_factor)
       IN [ret |-> AllButLast(m), experiences |-> m]
  ELSE LET m == BackwardScan(exps, Len(exps), 0, discount_factor)
       IN [ret |-> m, experiences |-> m]

AccumulateBootstrapsTerminal(exps, discount_factor, v, running) ==
  IF running
  THEN LET m == BackwardScan(exps, Len(exps) - 1, v, discount_factor)
       IN [ret |-> AllButLast(m), experiences |-> m]
  ELSE LET m == BackwardScan(exps, Len(exps), v, discount_factor)
       IN [ret |-> m, experiences |-> m]

\* _accumulate_rewards: ret is the list returned, experiences the caller's list
\* after the in-place overwrite of the rewards
accumulate_rewards(exps, discount_factor, v, running) ==
  IF running
  THEN LET m == BackwardScan(exps, Len(exps) - 1, v, discount_factor)
       IN [ret |-> AllButLast(m), experiences |-> m]
  ELSE LET m == BackwardScan(exps, Len(exps), 0, discount_factor)
       IN [ret |-> m, experiences |-> m]

\* convert_data: the states, the rewards and the one-hot rows of the actions
OneHot(action) == [j \in 1 .. cfg.num_actions |-> IF j - 1 = action THEN 1 ELSE 0]

convert_data(exps) ==
  [x_ |-> [i \in 1 .. Len(exps) |-> exps[i].state],
   a_ |-> [i \in 1 .. Len(exps) |-> OneHot(exps[i].action)],
   r_ |-> [i \in 1 .. Len(exps) |-> exps[i].reward]]

\* np.argmax: one pass over the flattened array from index 0, keeping the index
\* of the first entry greater than every entry before it; best is the index
\* (from 0) kept so far, i the index looked at
RECURSIVE ArgMaxScan(_, _, _)
ArgMaxScan(prediction, i, best) ==
  IF i >= Len(prediction) THEN best
  ELSE ArgMaxScan(prediction, i + 1,
                  IF prediction[i + 1] > prediction[best + 1] THEN i ELSE best)

\* faulty variant: a later entry equal to the maximum replaces the one kept
RECURSIVE ArgMaxScanLast(_, _, _)
ArgMaxScanLast(prediction, i, best) ==
  IF i >= Len(prediction) THEN best
  ELSE ArgMaxScanLast(prediction, i + 1,
                      IF prediction[i + 1] >= prediction[best + 1] THEN i ELSE best)

ArgMaxLast(prediction) == ArgMaxScanLast(prediction, 1, 0)

ArgMax(prediction) == ArgMaxScan(prediction, 1, 0)

\* select_action: the actions the call may return (np.random.choice draws an
\* index of non-zero probability)
select_action(prediction) ==
  IF cfg.PLAY_MODE
  THEN {ArgMax(prediction)}
  ELSE {i \in 0 .. Len(prediction) - 1 : prediction[i + 1] > 0}

\* lines 114-119: NUM_LSTMS layers of zeros
ZeroLstm == [i \in 1 .. cfg.NUM_LSTMS |-> [c |-> 0, h |-> 0]]

\* faulty variant of InitialLstm: only the first episode starts from zeros, the
\* later ones from the state the episode before left
KeptLstm(left) == IF left = <<>> THEN ZeroLstm ELSE left

\* lines 114-119: the recurrent state an episode starts from, whatever the
\* episode before left
InitialLstm(left) == ZeroLstm

\* predict, lines 85-87: the request tuple
Request(id, state, lstm_inputs) ==
  [id |-> id, state |-> state,
   c_state |-> IF Len(lstm_inputs) > 0
               THEN Some([i \in 1 .. Len(lstm_inputs) |-> lstm_inputs[i].c])
               ELSE Absent,
   h_state |-> IF Len(lstm_inputs) > 0
               THEN Some([i \in 1 .. Len(lstm_inputs) |-> lstm_inputs[i].h])
               ELSE Absent]

\* predict, lines 91-96: the recurrent state handed back to run_episode
ReturnedLstm(lstm_inputs, resp) ==
  IF Len(lstm_inputs) = 0 THEN <<>>
  ELSE [i \in 1 .. Len(resp.c_state.val) |->
          [c |-> resp.c_state.val[i], h |-> resp.h_state.val[i]]]

\* faulty variant of RewardCounted: the reward as the accumulator sees it
RewardCountedClipped(reward) == ClippedReward(reward)

\* line 133: what a step adds to the segment's reward_sum
RewardCounted(reward) == reward

\* faulty variant of BatchLength: the rewards of the batch and no more
BatchLengthExact(r_) == Len(r_)

\* line 165: what a batch adds to the episode's total_length
BatchLength(r_) == Len(r_) + 1

\* faulty variant of Bootstrap: the value estimate of the response before
StaleBootstrap(w, resp) == value[w]

\* lines 129 and 138: the value handed to the accumulator is the one predict
\* has just returned
Bootstrap(w, resp) == resp.v

\* line 137: the segment boundary test, and the faulty variant that cuts one
\* step later
BoundaryLate(running, count) == ~running \/ count = cfg.TIME_MAX + 1

Boundary(running, count) == ~running \/ count = cfg.TIME_MAX

\* line 148: what the buffer keeps after a cut, and the faulty variant that
\* keeps nothing
KeepNone(exps) == <<>>

KeepLast(exps) == <<exps[Len(exps)]>>

\* line 159: the condition of the episode loop of run
LoopCond(steps, flag) == steps = cfg.MAX_STEPS \/ flag = 0

\* ------------------------------------------------------------ environment
\* Environment (Environment.py): reset forgets the observation; NOOP steps fill
\* the frame queue, and current_state is None until it is full
EnvFrames == 1

EnvReset(e) == [e EXCEPT !.current_state = None, !.previous_state = None,
                         !.frames = 0, !.t = 0]

\* the observation after k action steps of episode ep
Obs(ep, k) == 100 * ep + k

EnvNoop(e, ep) ==
  [e EXCEPT !.frames = Min(e.frames + 1, EnvFrames),
            !.previous_state = e.current_state,
            !.current_state = IF e.frames + 1 >= EnvFrames THEN Obs(ep, 0) ELSE None]

EnvStep(e, ep) ==
  [e EXCEPT !.previous_state = e.current_state,
            !.current_state = Obs(ep, e.t + 1),
            !.t = e.t + 1]

\* ------------------------------------------------------ prediction service
\* what the service answers: probabilities and a value estimate, a function of
\* the observation it is asked about
Answer(state) ==
  IF state % 2 = 0 THEN [p |-> <<2, 2>>, v |-> 5] ELSE [p |-> <<0, 4>>, v |-> -1]

\* the recurrent state the service hands back: not the one it was given
NextCell(c) ==
  IF c.some THEN Some([i \in 1 .. Len(c.val) |-> c.val[i] + 1]) ELSE Absent

Response(req) ==
  [p |-> Answer(req.state).p, v |-> Answer(req.state).v, c_state |-> NextCell(req.c_state),
   h_state |-> NextCell(req.h_state)]

RemoveAt(s, i) == SubSeq(s, 1, i - 1) \o SubSeq(s, i + 1, Len(s))

Workers == DOMAIN pc

\* ------------------------------------------------------------------- run
\* the bound on the run: the first bnd.episodes episodes of a worker last up
\* to bnd.ep_len action steps. The worker starts episodes for as long as line
\* 159 lets it; every later episode ends on its first action step, and the
\* history keeps the later episodes under one number, bnd.episodes + 1.
EpisodeNumber(e) == Min(e + 1, bnd.episodes + 1)

\* the events the history keeps when the episode numbered ep starts: those of
\* the episodes numbered below ep
KeptEvents(events, ep) == SelectSeq(events, LAMBDA ev : ev[2] < ep)

\* the most action steps of the current episode of w
EpLen(w) == IF hist[w].episode > bnd.episodes THEN 1 ELSE bnd.ep_len

\* line 159, then lines 160-161 and the start of run_episode (lines 106-119),
\* or the end of run
LoopCheck(w) ==
  /\ pc[w] = "loop"
  /\ IF LoopCond(total_steps[w], exit_flag[w])
     THEN /\ pc' = [pc EXCEPT ![w] = "step"]
          /\ total_reward' = [total_reward EXCEPT ![w] = 0]
          /\ total_length' = [total_length EXCEPT ![w] = 0]
          /\ env' = [env EXCEPT ![w] = EnvReset(env[w])]
          /\ is_running' = [is_running EXCEPT ![w] = TRUE]
          /\ experiences' = [experiences EXCEPT ![w] = <<>>]
          /\ time_count' = [time_count EXCEPT ![w] = 0]
          /\ reward_sum' = [reward_sum EXCEPT ![w] = 0]
          /\ lstm_input_p' = [lstm_input_p EXCEPT ![w] = InitialLstm(@)]
          /\ lstm_input_t' = [lstm_input_t EXCEPT ![w] = InitialLstm(@)]
          /\ hist' = [hist EXCEPT ![w].episode = EpisodeNumber(@), ![w].steps = <<>>,
                                  ![w].batches = <<>>, ![w].log = Absent,
                                  ![w].events = KeptEvents(@, EpisodeNumber(hist[w].episode)),
                                  ![w].steps_before = total_steps[w]]
     ELSE /\ pc' = [pc EXCEPT ![w] = "exited"]
          /\ UNCHANGED <<total_reward, total_length, env, is_running, experiences,
                         time_count, reward_sum, lstm_input_p, lstm_input_t, hist>>
  /\ UNCHANGED <<cfg, bnd, acc, exit_flag, total_steps, value, yielded, wait_q,
                 prediction_q, training_q, episode_log_q, server>>

\* faulty variant of Noop: no assertion, the loop goes on to its test
NoopUnchecked(w) ==
  /\ pc[w] = "step"
  /\ is_running[w]
  /\ env[w].current_state = None
  /\ \E running \in BOOLEAN :
       /\ env' = [env EXCEPT ![w] = EnvNoop(env[w], hist[w].episode)]
       /\ is_running' = [is_running EXCEPT ![w] = running]
       /\ pc' = [pc EXCEPT ![w] = "step"]
  /\ UNCHANGED <<cfg, bnd, acc, exit_flag, total_steps, total_reward, total_length,
                 experiences, time_count, reward_sum, lstm_input_p, lstm_input_t,
                 value, yielded, wait_q, prediction_q, training_q, episode_log_q,
                 server, hist>>

\* lines 124-127: a NOOP step while the environment has no observation yet;
\* the assertion ends the process when the step reports the end of the episode
Noop(w) ==
  /\ pc[w] = "step"
  /\ is_running[w]
  /\ env[w].current_state = None
  /\ \E running \in BOOLEAN :
       /\ env' = [env EXCEPT ![w] = EnvNoop(env[w], hist[w].episode)]
       /\ is_running' = [is_running EXCEPT ![w] = running]
       /\ pc' = [pc EXCEPT ![w] = IF running THEN "step" ELSE "aborted"]
  /\ UNCHANGED <<cfg, bnd, acc, exit_flag, total_steps, total_reward, total_length,
                 experiences, time_count, reward_sum, lstm_input_p, lstm_input_t,
                 value, yielded, wait_q, prediction_q, training_q, episode_log_q,
                 server, hist>>

\* predict lines 85-87: the request goes on the prediction queue, and the
\* worker goes on to wait for the answer; in the faulty variant the request is
\* put twice
PutRequestTwice(w) ==
  /\ prediction_q' = Append(Append(prediction_q,
                              Request(w, env[w].current_state, lstm_input_p[w])),
                            Request(w, env[w].current_state, lstm_input_p[w]))
  /\ pc' = [pc EXCEPT ![w] = "wait"]
  /\ UNCHANGED <<cfg, bnd, acc, exit_flag, total_steps, total_reward, total_length,
                 is_running, experiences, time_count, reward_sum, lstm_input_p,
                 lstm_input_t, value, yielded, env, wait_q, training_q,
                 episode_log_q, server, hist>>

\* faulty variant of PutRequest: the worker waits for an answer to a request it
\* has not put
PutRequestLost(w) ==
  /\ pc' = [pc EXCEPT ![w] = "wait"]
  /\ UNCHANGED <<cfg, bnd, acc, exit_flag, total_steps, total_reward, total_length,
                 is_running, experiences, time_count, reward_sum, lstm_input_p,
                 lstm_input_t, value, yielded, env, wait_q, prediction_q,
                 training_q, episode_log_q, server, hist>>

PutRequest(w) ==
  /\ prediction_q' = Append(prediction_q,
                            Request(w, env[w].current_state, lstm_input_p[w]))
  /\ pc' = [pc EXCEPT ![w] = "wait"]
  /\ UNCHANGED <<cfg, bnd, acc, exit_flag, total_steps, total_reward, total_length,
                 is_running, experiences, time_count, reward_sum, lstm_input_p,
                 lstm_input_t, value, yielded, env, wait_q, training_q,
                 episode_log_q, server, hist>>

\* faulty variant of PredictPut: the step loop looks at the exit flag and leaves
PredictPutOrQuit(w) ==
  /\ pc[w] = "step"
  /\ is_running[w]
  /\ env[w].current_state # None
  /\ IF exit_flag[w] # 0
     THEN /\ pc' = [pc EXCEPT ![w] = "exited"]
          /\ UNCHANGED <<cfg, bnd, acc, exit_flag, total_steps, total_reward,
                         total_length, is_running, experiences, time_count,
                         reward_sum, lstm_input_p, lstm_input_t, value, yielded,
                         env, wait_q, prediction_q, training_q, episode_log_q,
                         server, hist>>
     ELSE PutRequest(w)

\* lines 121, 124 and 129: the episode runs, the environment has an observation,
\* and the worker calls predict
PredictPut(w) ==
  /\ pc[w] = "step"
  /\ is_running[w]
  /\ env[w].current_state # None
  /\ PutRequest(w)

\* predict line 89 (the blocking get) to line 96, then lines 130-140 and 151 of
\* run_episode and, at a boundary, lines 163-165 of run
PredictGet(w) ==
  /\ pc[w] = "wait"
  /\ Len(wait_q[w]) > 0
  /\ LET resp == Head(wait_q[w])
         lstm == ReturnedLstm(lstm_input_p[w], resp)
     IN \E action \in select_action(resp.p), reward \in bnd.rewards,
           running \in BOOLEAN :
          /\ running => env[w].t + 1 < EpLen(w)
          /\ LET e2 == EnvStep(env[w], hist[w].episode)
                 rsum == reward_sum[w] + RewardCounted(reward)
                 exps == Append(experiences[w],
                                Experience(e2.previous_state, action, resp.p, reward))
                 res == accumulate_rewards(exps, cfg.DISCOUNT, Bootstrap(w, resp),
                                           running)
                 data == convert_data(res.ret)
                 step == [state |-> e2.previous_state, action |-> action,
                          prediction |-> resp.p, reward |-> reward,
                          lstm_in |-> lstm_input_p[w], value |-> resp.v]
             IN /\ wait_q' = [wait_q EXCEPT ![w] = Tail(@)]
                /\ lstm_input_p' = [lstm_input_p EXCEPT ![w] = lstm]
                /\ value' = [value EXCEPT ![w] = resp.v]
                /\ env' = [env EXCEPT ![w] = e2]
                /\ is_running' = [is_running EXCEPT ![w] = running]
                /\ reward_sum' = [reward_sum EXCEPT ![w] = rsum]
                /\ IF Boundary(running, time_count[w])
                   THEN /\ experiences' = [experiences EXCEPT ![w] = res.experiences]
                        /\ yielded' = [yielded EXCEPT ![w] =
                             [x_ |-> data.x_, r_ |-> data.r_, a_ |-> data.a_,
                              lstm_ |-> lstm_input_t[w], reward_sum |-> rsum,
                              steps |-> time_count[w]]]
                        /\ total_steps' = [total_steps EXCEPT ![w] = @ + time_count[w]]
                        /\ total_reward' = [total_reward EXCEPT ![w] = @ + rsum]
                        /\ total_length' = [total_length EXCEPT ![w] =
                                              @ + BatchLength(data.r_)]
                        /\ pc' = [pc EXCEPT ![w] = "put"]
                        /\ UNCHANGED time_count
                   ELSE /\ experiences' = [experiences EXCEPT ![w] = exps]
                        /\ time_count' = [time_count EXCEPT ![w] = @ + 1]
                        /\ pc' = [pc EXCEPT ![w] = "step"]
                        /\ UNCHANGED <<yielded, total_steps, total_reward, total_length>>
                /\ hist' = [hist EXCEPT ![w].steps = Append(@, step)]
  /\ UNCHANGED <<cfg, bnd, acc, exit_flag, lstm_input_t, prediction_q, training_q,
                 episode_log_q, server>>

\* line 166 (the put blocks while the queue is full), then lines 143-151.
\* The message on the queue stands for the tuple (x_, r_, a_, lstm_), which
\* hist[w].batches keeps under the message's number.
PutTraining(w) ==
  /\ pc[w] = "put"
  /\ Len(training_q) < QueueCap
  /\ training_q' = Append(training_q, [id |-> w, episode |-> hist[w].episode,
                                       batch |-> Len(hist[w].batches) + 1])
  /\ lstm_input_t' = [lstm_input_t EXCEPT ![w] = lstm_input_p[w]]
  /\ time_count' = [time_count EXCEPT ![w] = 0 + 1]
  /\ experiences' = [experiences EXCEPT ![w] = KeepLast(experiences[w])]
  /\ reward_sum' = [reward_sum EXCEPT ![w] = 0]
  /\ yielded' = [yielded EXCEPT ![w] = Absent]
  /\ pc' = [pc EXCEPT ![w] = "step"]
  /\ hist' = [hist EXCEPT
       ![w].batches = Append(@, [x_ |-> yielded[w].x_, a_ |-> yielded[w].a_,
                                 r_ |-> yielded[w].r_, lstm_ |-> yielded[w].lstm_,
                                 running |-> is_running[w],
                                 window |-> Len(experiences[w])]),
       ![w].events = Append(@, <<"batch", hist[w].episode, is_running[w]>>)]
  /\ UNCHANGED <<cfg, bnd, acc, exit_flag, total_steps, total_reward, total_length,
                 is_running, lstm_input_p, value, env, wait_q, prediction_q,
                 episode_log_q, server>>

\* line 121: the loop of run_episode ends, and with it the generator; in the
\* faulty variant it may end at any pass
ExhaustedAnyTime(w) == TRUE

Exhausted(w) == ~is_running[w]

\* line 121 false: the generator is exhausted, and lines 167-168 put the
\* episode's record on the log queue (the put blocks while the queue is full).
\* The message on the queue stands for the tuple (datetime.now(), total_reward,
\* total_length, total_steps), which hist[w].log keeps without the time.
PutEpisodeLog(w) ==
  /\ pc[w] = "step"
  /\ Exhausted(w)
  /\ Len(episode_log_q) < QueueCap
  /\ episode_log_q' = Append(episode_log_q, [id |-> w, episode |-> hist[w].episode])
  /\ pc' = [pc EXCEPT ![w] = "loop"]
  /\ hist' = [hist EXCEPT
       ![w].events = Append(@, <<"log", hist[w].episode, FALSE>>),
       ![w].log = [total_reward |-> total_reward[w],
                   total_length |-> total_length[w],
                   total_steps |-> total_steps[w]]]
  /\ UNCHANGED <<cfg, bnd, acc, exit_flag, total_steps, total_reward, total_length,
                 is_running, experiences, time_count, reward_sum, lstm_input_p,
                 lstm_input_t, value, yielded, env, wait_q, prediction_q,
                 training_q, server>>

\* ------------------------------------------------------- the worker's peers
\* the owner of the worker sets its exit flag
SetExit(w) ==
  /\ exit_flag[w] = 0
  /\ exit_flag' = [exit_flag EXCEPT ![w] = 1]
  /\ hist' = [hist EXCEPT ![w].set_at =
                IF pc[w] \in {"step", "wait", "put"} /\ is_running[w]
                THEN "running" ELSE "boundary"]
  /\ UNCHANGED <<cfg, bnd, acc, pc, total_steps, total_reward, total_length,
                 is_running, experiences, time_count, reward_sum, lstm_input_p,
                 lstm_input_t, value, yielded, env, wait_q, prediction_q,
                 training_q, episode_log_q, server>>

\* the prediction service takes a request off the shared queue
ServerTake ==
  /\ Len(prediction_q) > 0
  /\ server' = Append(server, Head(prediction_q))
  /\ prediction_q' = Tail(prediction_q)
  /\ UNCHANGED <<cfg, bnd, acc, pc, exit_flag, total_steps, total_reward,
                 total_length, is_running, experiences, time_count, reward_sum,
                 lstm_input_p, lstm_input_t, value, yielded, env, wait_q,
                 training_q, episode_log_q, hist>>

\* the prediction service answers one of the requests it holds, in any order,
\* on the wait queue of the requester
ServerAnswer ==
  /\ \E i \in 1 .. Len(server) :
       /\ wait_q' = [wait_q EXCEPT ![server[i].id] = Append(@, Response(server[i]))]
       /\ server' = RemoveAt(server, i)
  /\ UNCHANGED <<cfg, bnd, acc, pc, exit_flag, total_steps, total_reward,
                 total_length, is_running, experiences, time_count, reward_sum,
                 lstm_input_p, lstm_input_t, value, yielded, env, prediction_q,
                 training_q, episode_log_q, hist>>

\* the trainer and the statistics process drain their queues
TrainerTake ==
  /\ Len(training_q) > 0
  /\ training_q' = Tail(training_q)
  /\ UNCHANGED <<cfg, bnd, acc, pc, exit_flag, total_steps, total_reward,
                 total_length, is_running, experiences, time_count, reward_sum,
                 lstm_input_p, lstm_input_t, value, yielded, env, wait_q,
                 prediction_q, episode_log_q, server, hist>>

StatsTake ==
  /\ Len(episode_log_q) > 0
  /\ episode_log_q' = Tail(episode_log_q)
  /\ UNCHANGED <<cfg, bnd, acc, pc, exit_flag, total_steps, total_reward,
                 total_length, is_running, experiences, time_count, reward_sum,
                 lstm_input_p, lstm_input_t, value, yielded, env, wait_q,
                 prediction_q, training_q, server, hist>>

\* ------------------------------------------------------------ specifications
NoCall == [done |-> TRUE]

\* the options of Config that go together in a run
Options ==
  {[REWARD_CLIPPING |-> TRUE, PLAY_MODE |-> TRUE, NUM_LSTMS |-> 1, MAX_STEPS |-> 1],
   [REWARD_CLIPPING |-> FALSE, PLAY_MODE |-> FALSE, NUM_LSTMS |-> 0, MAX_STEPS |-> 2]}

Config(o, tmax, discount, clip) ==
  [TIME_MAX |-> tmax, MAX_STEPS |-> o.MAX_STEPS, DISCOUNT |-> discount,
   REWARD_CLIPPING |-> o.REWARD_CLIPPING, REWARD_MIN |-> clip[1],
   REWARD_MAX |-> clip[2], PLAY_MODE |-> o.PLAY_MODE, NUM_LSTMS |-> o.NUM_LSTMS,
   num_actions |-> 2]

\* the state after __init__ of the workers W, at line 157 of run
WorkersInit(W) ==
  /\ pc = [w \in W |-> "loop"]
  /\ exit_flag = [w \in W |-> 0]
  /\ total_steps = [w \in W |-> 0]
  /\ total_reward = [w \in W |-> 0]
  /\ total_length = [w \in W |-> 0]
  /\ is_running = [w \in W |-> FALSE]
  /\ experiences = [w \in W |-> <<>>]
  /\ time_count = [w \in W |-> 0]
  /\ reward_sum = [w \in W |-> 0]
  /\ lstm_input_p = [w \in W |-> <<>>]
  /\ lstm_input_t = [w \in W |-> <<>>]
  /\ value = [w \in W |-> 0]
  /\ yielded = [w \in W |-> Absent]
  /\ env = [w \in W |-> [current_state |-> None, previous_state |-> None,
                         frames |-> 0, t |-> 0]]
  /\ wait_q = [w \in W |-> <<>>]
  /\ prediction_q = <<>>
  /\ training_q = <<>>
  /\ episode_log_q = <<>>
  /\ server = <<>>
  /\ hist = [w \in W |-> [episode |-> 0, steps |-> <<>>, batches |-> <<>>,
                          events |-> <<>>, log |-> Absent,
                          set_at |-> "never", steps_before |-> 0]]

\* one worker, its environment, the service and the consumers
Init ==
  /\ \E o \in Options, tmax \in 1 .. MaxTimeMax, clip \in ClipBounds :
       cfg = Config(o, tmax, 2, clip)
  /\ bnd = [ep_len |-> MaxEpLen, episodes |-> MaxEpisodes, rewards |-> EnvRewards]
  /\ acc = NoCall
  /\ WorkersInit({1})

Next ==
  \/ \E w \in Workers : LoopCheck(w)
  \/ \E w \in Workers : Noop(w)
  \/ \E w \in Workers : PredictPut(w)
  \/ \E w \in Workers : PredictGet(w)
  \/ \E w \in Workers : PutTraining(w)
  \/ \E w \in Workers : PutEpisodeLog(w)
  \/ \E w \in Workers : SetExit(w)
  \/ ServerTake
  \/ ServerAnswer
  \/ TrainerTake
  \/ StatsTake

Spec == Init /\ [][Next]_vars

\* several workers on the shared queues, short episodes
InitConc ==
  /\ \E o \in {x \in Options : x.NUM_LSTMS > 0}, clip \in ClipBounds :
       cfg = Config(o, 1, 2, clip)
  /\ bnd = [ep_len |-> ConcEpLen, episodes |-> ConcEpisodes, rewards |-> {3}]
  /\ acc = NoCall
  /\ WorkersInit(ConcWorkers)

SpecConc == InitConc /\ [][Next]_vars

\* ---------------------------------------------- the accumulator on its own
\* every window of at most MaxWin experiences with rewards of AccRewards
Windows ==
  UNION {{[i \in 1 .. n |-> Experience(100 + i, i % 2, <<2, 2>>, f[i])] :
            f \in [1 .. n -> AccRewards]} : n \in 0 .. MaxWin}

InitAcc ==
  /\ \E o \in Options, discount \in Discounts, clip \in ClipBounds,
        clipping \in BOOLEAN :
       cfg = [Config(o, 1, discount, clip) EXCEPT !.REWARD_CLIPPING = clipping]
  /\ bnd = [ep_len |-> MaxEpLen, episodes |-> MaxEpisodes, rewards |-> EnvRewards]
  /\ \E exps \in Windows, v \in AccValues, running \in BOOLEAN :
       acc = [done |-> FALSE, experiences |-> exps, value |-> v,
              is_running |-> running, out |-> Absent]
  /\ WorkersInit({1})

\* one call ProcessAgent._accumulate_rewards(experiences, discount, value, is_running)
Accumulate ==
  /\ ~acc.done
  /\ acc' = [acc EXCEPT !.done = TRUE,
                        !.out = accumulate_rewards(acc.experiences, cfg.DISCOUNT,
                                                   acc.value, acc.is_running)]
  /\ UNCHANGED <<cfg, bnd, workerVars>>

NextAcc == Accumulate

SpecAcc == InitAcc /\ [][NextAcc]_vars

\* --------------------------------------------------- fair scheduling
\* every process that can take a step takes one in the end: the worker (each
\* of its steps), the prediction service and the two consumers; nothing
\* obliges the owner to set the exit flag
FairWorker(w) ==
  /\ WF_vars(LoopCheck(w)) /\ WF_vars(Noop(w)) /\ WF_vars(PredictPut(w))
  /\ WF_vars(PredictGet(w)) /\ WF_vars(PutTraining(w))
  /\ WF_vars(PutEpisodeLog(w))

FairPeers ==
  /\ WF_vars(ServerTake) /\ WF_vars(ServerAnswer)
  /\ WF_vars(TrainerTake) /\ WF_vars(StatsTake)

\* one worker that may be told to stop at some point; the episodes it starts
\* are not bounded in number
InitShut ==
  /\ \E o \in Options, clip \in ClipBounds : cfg = Config(o, 1, 2, clip)
  /\ bnd = [ep_len |-> ShutEpLen, episodes |-> ShutEpisodes, rewards |-> {3}]
  /\ acc = NoCall
  /\ WorkersInit({1})

SpecShut == InitShut /\ [][Next]_vars /\ FairWorker(1) /\ FairPeers

\* several workers under fair scheduling: every process steps when it can
\* for good, and the service, which answers every request, is fair to every
\* requester. Nothing orders the workers that wait for room on a shared queue
\* (lines 166-167 are plain blocking puts), so a put is only weakly fair.
FairService(w) == WF_vars(ServerAnswer /\ Len(wait_q'[w]) > Len(wait_q[w]))

InitConcFair ==
  /\ \E o \in {x \in Options : x.NUM_LSTMS > 0}, clip \in ClipBounds :
       cfg = Config(o, 1, 2, clip)
  /\ bnd = [ep_len |-> ShutEpLen, episodes |-> ShutEpisodes, rewards |-> {3}]
  /\ acc = NoCall
  /\ WorkersInit(ConcWorkers)

SpecConcFair ==
  /\ InitConcFair /\ [][Next]_vars
  /\ FairWorker(1) /\ FairWorker(2)
  /\ FairService(1) /\ FairService(2) /\ FairPeers

\* ------------------------------------------------ select_action on its own
\* prediction vectors: weights of 1 .. MaxActions actions, not all zero
Predictions ==
  UNION {{p \in [1 .. n -> 0 .. MaxWeight] : \E i \in 1 .. n : p[i] > 0} :
           n \in 1 .. MaxActions}

InitAct ==
  /\ \E o \in Options, clip \in ClipBounds, p \in Predictions :
       /\ cfg = [Config(o, 1, 2, clip) EXCEPT !.num_actions = Len(p)]
       /\ acc = [done |-> TRUE, prediction |-> p, out |-> <<>>]
  /\ bnd = [ep_len |-> MaxEpLen, episodes |-> MaxEpisodes, rewards |-> EnvRewards]
  /\ WorkersInit({1})

\* one call self.select_action(prediction), up to two on the same vector
SelectAction ==
  /\ Len(acc.out) < 2
  /\ \E action \in select_action(acc.prediction) :
       acc' = [acc EXCEPT !.out = Append(@, action)]
  /\ UNCHANGED <<cfg, bnd, workerVars>>

NextAct == SelectAction

SpecAct == InitAct /\ [][NextAct]_vars


\* ================================================================ properties
RECURSIVE Pow(_, _)
Pow(b, e) == IF e = 0 THEN 1 ELSE b * Pow(b, e - 1)

\* the reward as the recurrence sees it, written out
Clipped(r) ==
  IF ~cfg.REWARD_CLIPPING THEN r
  ELSE IF r < cfg.REWARD_MIN THEN cfg.REWARD_MIN
  ELSE IF r > cfg.REWARD_MAX THEN cfg.REWARD_MAX ELSE r

\* sum over k = t .. n of g^(k-t) * clip(r_k), plus g^(n-t+1) * tail
RECURSIVE Return(_, _, _, _, _)
Return(exps, t, n, g, tail) ==
  IF t > n THEN tail
  ELSE Clipped(exps[t].reward) + g * Return(exps, t + 1, n, g, tail)

DiscountedSum(exps, t, n, g, tail) ==
  LET terms == [k \in t .. n |-> Pow(g, k - t) * Clipped(exps[k].reward)]
      RECURSIVE Add(_)
      Add(k) == IF k > n THEN 0 ELSE terms[k] + Add(k + 1)
  IN Add(t) + Pow(g, n - t + 1) * tail

\* C1: on a non-terminal window of length n >= 2 the accumulator returns the
\* first n-1 experiences in order, reward[t] replaced by the discounted sum of
\* the clipped rewards t .. n-2 plus g^(n-1-t) times the bootstrap value, and
\* leaves the last experience, reward included, as it was.
C1_NonTerminalWindow ==
  (acc.done /\ acc.is_running /\ Len(acc.experiences) >= 2) =>
    LET n == Len(acc.experiences)
        g == cfg.DISCOUNT
    IN /\ Len(acc.out.ret) = n - 1
       /\ \A t \in 1 .. n - 1 :
            /\ acc.out.ret[t] =
                 [acc.experiences[t] EXCEPT
                    !.reward = DiscountedSum(acc.experiences, t, n - 1, g, acc.value)]
            /\ acc.out.experiences[t] = acc.out.ret[t]
       /\ Len(acc.out.experiences) = n
       /\ acc.out.experiences[n] = acc.experiences[n]

C1_Witness ==
  /\ acc.done /\ acc.is_running /\ Len(acc.experiences) = 3
  /\ cfg.REWARD_CLIPPING /\ cfg.DISCOUNT = 2 /\ acc.value = 7
  /\ acc.experiences[1].reward = 2 /\ acc.experiences[2].reward = -1
  /\ acc.experiences[3].reward = -2
  /\ acc.out.ret[1].reward = 27 /\ acc.out.ret[2].reward = 13
  /\ acc.out.experiences[3].reward = -2

\* C2: on a terminal window of length n >= 1 the accumulator returns all n
\* experiences, reward[t] replaced by the discounted sum of the clipped rewards
\* t .. n-1, whatever the bootstrap value is.
C2_TerminalWindow ==
  (acc.done /\ ~acc.is_running /\ Len(acc.experiences) >= 1) =>
    LET n == Len(acc.experiences)
        g == cfg.DISCOUNT
    IN /\ Len(acc.out.ret) = n
       /\ \A t \in 1 .. n :
            acc.out.ret[t] =
              [acc.experiences[t] EXCEPT
                 !.reward = DiscountedSum(acc.experiences, t, n, g, 0)]
       /\ acc.out.experiences = acc.out.ret

C2_Witness ==
  /\ acc.done /\ ~acc.is_running /\ Len(acc.experiences) = 3
  /\ ~cfg.REWARD_CLIPPING /\ cfg.DISCOUNT = 2 /\ acc.value = 7
  /\ acc.experiences[1].reward = 1 /\ acc.experiences[2].reward = 2
  /\ acc.experiences[3].reward = -2
  /\ acc.out.ret[1].reward = -3 /\ acc.out.ret[3].reward = -2

\* C3 as stated: the buffer never holds more than TIME_MAX experiences, the
\* carried-over trailer included.
C3_BufferAtMostTimeMax ==
  \A w \in Workers : Len(experiences[w]) <= cfg.TIME_MAX

\* C3, amended: the buffer never holds more than TIME_MAX + 1 experiences, the
\* carried-over trailer included, at the hand-over to the accumulator and in
\* every other state.
C3_BufferAtMostTimeMaxPlusOne ==
  \A w \in Workers : Len(experiences[w]) <= cfg.TIME_MAX + 1

\* a non-terminal cut of a later segment with a full window
C3_Witness ==
  \E w \in Workers :
    /\ pc[w] = "put" /\ is_running[w]
    /\ Len(hist[w].batches) >= 1
    /\ Len(experiences[w]) = cfg.TIME_MAX + 1

\* the raw experience of a recorded action step
RawExperience(step) ==
  Experience(step.state, step.action, step.prediction, step.reward)

\* C4: after a non-terminal cut the buffer holds exactly one experience, the
\* last one of the window just accumulated with the raw reward of its step;
\* an episode starts from an empty buffer, and every batch holds observations
\* of its own episode only.
C4_CarryOver ==
  [][\A w \in Workers :
       /\ (pc[w] = "put" /\ pc'[w] = "step" /\ is_running[w]) =>
            /\ experiences'[w] = <<experiences[w][Len(experiences[w])]>>
            /\ experiences'[w] =
                 <<RawExperience(hist[w].steps[Len(hist[w].steps)])>>
       /\ (pc[w] = "loop" /\ pc'[w] = "step") => experiences'[w] = <<>>
       /\ (pc[w] = "wait" /\ pc'[w] = "put") =>
            \A i \in 1 .. Len(yielded'[w].x_) :
              yielded'[w].x_[i] \div 100 = hist[w].episode]_vars

\* the second episode, right after a non-terminal cut
C4_Witness ==
  \E w \in Workers :
    /\ hist[w].episode = 2 /\ pc[w] = "step" /\ is_running[w]
    /\ Len(hist[w].batches) >= 1 /\ Len(hist[w].steps) >= 2
    /\ hist[w].batches[Len(hist[w].batches)].running
    /\ time_count[w] = 1
    /\ Len(experiences[w]) = 1 /\ experiences[w][1].reward = 3

\* C5 as stated: at an episode boundary where total_steps has reached
\* MAX_STEPS or the exit flag is set, the worker starts no further episode.
C5_StopsAtMaxStepsOrFlag ==
  [][\A w \in Workers :
       (pc[w] = "loop" /\ (total_steps[w] >= cfg.MAX_STEPS \/ exit_flag[w] # 0))
         => pc'[w] # "step"]_vars

\* the log records of the worker so far
LogCount(w) ==
  Cardinality({i \in 1 .. Len(hist[w].events) : hist[w].events[i][1] = "log"})

\* C6: the worker leaves run only at an episode boundary: when it has exited,
\* every episode it started has run to termination, its last batch was a
\* terminal one and its log record has been put, also when the flag was set
\* while the episode was in progress.
C6_ExitOnlyBetweenEpisodes ==
  \A w \in Workers :
    pc[w] = "exited" =>
      /\ LogCount(w) = hist[w].episode
      /\ hist[w].episode > 0 =>
           /\ ~is_running[w]
           /\ Len(hist[w].batches) >= 1
           /\ ~hist[w].batches[Len(hist[w].batches)].running
           /\ hist[w].events[Len(hist[w].events)] = <<"log", hist[w].episode, FALSE>>
           /\ Len(experiences[w]) = 1
           /\ yielded[w] = Absent

C6_Witness ==
  \E w \in Workers :
    /\ pc[w] = "exited" /\ hist[w].set_at = "running"
    /\ hist[w].episode = 1 /\ Len(hist[w].steps) >= 2

\* the messages of worker w between its put and its get
InFlight(w) ==
  Cardinality({i \in 1 .. Len(prediction_q) : prediction_q[i].id = w})
  + Cardinality({i \in 1 .. Len(server) : server[i].id = w})
  + Len(wait_q[w])

\* C7: a worker inside predict has exactly one message in flight (its request
\* on the prediction queue or with the service, or the response on its wait
\* queue), a worker outside predict has none, and no wait queue ever holds
\* more than one message; so no response is sent to a wait queue that is full.
C7_OneRequestInFlight ==
  \A w \in Workers :
    /\ InFlight(w) = IF pc[w] = "wait" THEN 1 ELSE 0
    /\ Len(wait_q[w]) <= 1
    /\ \A i \in 1 .. Len(prediction_q) :
         prediction_q[i].id = w => prediction_q[i].state = env[w].current_state

\* both workers inside predict, one answered and one with the service
C7_Witness ==
  /\ pc[1] = "wait" /\ pc[2] = "wait"
  /\ Len(wait_q[1]) = 1 /\ Len(server) = 1 /\ server[1].id = 2
  /\ Len(hist[1].steps) = 1

\* C8 as stated: the recurrent state attached to a batch is the recurrent state
\* that went into the prediction request made for the first experience of the
\* batch.
C8_TrainingStateIsSegmentStart ==
  \A w \in Workers :
    (pc[w] = "put" /\ Len(yielded[w].x_) >= 1) =>
      \E i \in 1 .. Len(hist[w].steps) :
        /\ hist[w].steps[i].state = yielded[w].x_[1]
        /\ hist[w].steps[i].lstm_in = yielded[w].lstm_

\* the batches of the episode so far, end to end
RECURSIVE Flatten(_, _)
Flatten(batches, field) ==
  IF Len(batches) = 0 THEN <<>>
  ELSE batches[1][field] \o Flatten(Tail(batches), field)

\* the action a one-hot row stands for
Decode(row) == (CHOOSE j \in 1 .. Len(row) : row[j] = 1) - 1

EpisodeOver(w) ==
  hist[w].episode >= 1 /\ (pc[w] \in {"loop", "exited"} \/ (pc[w] = "step" /\ ~is_running[w]))

\* C9: the batches put for an episode, end to end, are at every moment the
\* first action steps of the episode, each once and in step order (state and
\* action), and all of them once the episode is over; the action steps are
\* the observations 0, 1, 2, ... of the episode, one per env.step with an
\* action and none for a NOOP.
C9_NoStepLostOrDuplicated ==
  \A w \in Workers :
    LET xs == Flatten(hist[w].batches, "x_")
        as == Flatten(hist[w].batches, "a_")
        steps == hist[w].steps
    IN /\ Len(xs) <= Len(steps)
       /\ Len(as) = Len(xs)
       /\ \A i \in 1 .. Len(xs) :
            /\ xs[i] = steps[i].state
            /\ Cardinality({j \in 1 .. Len(as[i]) : as[i][j] # 0}) = 1
            /\ Decode(as[i]) = steps[i].action
       /\ \A i \in 1 .. Len(steps) : steps[i].state = 100 * hist[w].episode + i - 1
       /\ Len(steps) = env[w].t
       /\ EpisodeOver(w) => Len(xs) = Len(steps)

\* an episode of four action steps put in three batches
C9_Witness ==
  \E w \in Workers :
    /\ pc[w] = "loop" /\ Len(hist[w].batches) = 3 /\ Len(hist[w].steps) = 4
    /\ hist[w].steps[2].action = 1 /\ hist[w].steps[3].action = 0

\* the episodes of the worker that have ended and been logged
Completed(w) ==
  IF pc[w] \in {"loop", "exited"} THEN hist[w].episode ELSE hist[w].episode - 1

\* C10: the puts of a worker on the training and log queues come episode by
\* episode; the log record of an episode comes once, after all its batches,
\* right after its terminal batch, and before any batch of the next episode;
\* there are as many log records as episodes that ended, so none for an
\* episode that has not terminated.
C10_OneLogPerEpisode ==
  \A w \in Workers :
    LET ev == hist[w].events
    IN /\ \A i, j \in 1 .. Len(ev) : i < j =>
            /\ ev[i][2] <= ev[j][2]
            /\ ev[i][1] = "log" => ev[i][2] < ev[j][2]
       /\ \A i \in 1 .. Len(ev) : ev[i][1] = "log" =>
            /\ i > 1
            /\ ev[i - 1] = <<"batch", ev[i][2], FALSE>>
       /\ \A i \in 1 .. Len(ev) : (ev[i][1] = "batch" /\ ~ev[i][3]) =>
            (i < Len(ev) => ev[i + 1] = <<"log", ev[i][2], FALSE>>)
       /\ LogCount(w) = IF hist[w].episode = 0 THEN 0 ELSE Completed(w)

\* two episodes logged, the first after two batches
C10_Witness ==
  \E w \in Workers :
    /\ pc[w] = "loop" /\ hist[w].episode = 2 /\ Len(hist[w].events) >= 5
    /\ hist[w].events[1] = <<"batch", 1, TRUE>>
    /\ hist[w].events[3] = <<"log", 1, FALSE>>
    /\ hist[w].events[Len(hist[w].events)] = <<"log", 2, FALSE>>

\* the events of worker w that belong to episode ep
EventsOf(w, ep) ==
  {i \in 1 .. Len(hist[w].events) : hist[w].events[i][2] = ep}

\* C12: a NOOP step, taken while the environment has no observation, that
\* reports is_running = false ends the worker by the assertion; at that point
\* the episode has made no prediction request, recorded no experience, put no
\* batch and no log record, and from then on the worker does nothing: no
\* request, no put, no further episode.
C12_NoopFailureIsFatal ==
  [][\A w \in Workers :
       /\ (pc[w] = "step" /\ is_running[w] /\ env[w].current_state = None
           /\ env'[w] # env[w] /\ ~is_running'[w]) => pc'[w] = "aborted"
       /\ pc'[w] = "aborted" =>
            /\ hist'[w].steps = <<>> /\ experiences'[w] = <<>>
            /\ hist'[w].batches = <<>> /\ hist'[w].log = Absent
            /\ EventsOf(w, hist[w].episode)' = {}
            /\ InFlight(w)' = 0
            /\ LogCount(w)' = hist'[w].episode - 1
       /\ pc[w] = "aborted" =>
            /\ pc'[w] = "aborted"
            /\ hist'[w].episode = hist[w].episode
            /\ hist'[w].events = hist[w].events]_vars

\* the assertion fails in the second episode, after a first one that was logged
C12_Witness ==
  \E w \in Workers :
    /\ pc[w] = "aborted" /\ hist[w].episode = 2 /\ ~is_running[w]
    /\ LogCount(w) = 1 /\ env[w].t = 0

\* C13: in play mode every call of select_action returns an index holding the
\* largest entry of the vector, with no entry that large before it, so two
\* calls on the same vector return the same index.
C13_PlayModeArgMax ==
  (cfg.PLAY_MODE /\ "prediction" \in DOMAIN acc) =>
    LET p == acc.prediction
    IN /\ \A k \in 1 .. Len(acc.out) :
            /\ acc.out[k] \in 0 .. Len(p) - 1
            /\ \A j \in 1 .. Len(p) : p[j] <= p[acc.out[k] + 1]
            /\ \A j \in 1 .. acc.out[k] : p[j] < p[acc.out[k] + 1]
       /\ \A k, l \in 1 .. Len(acc.out) : acc.out[k] = acc.out[l]

\* two calls on a vector whose maximum stands at the second and third places
C13_Witness ==
  /\ cfg.PLAY_MODE /\ "prediction" \in DOMAIN acc
  /\ acc.prediction = <<1, 2, 2>> /\ acc.out = <<1, 1>>

\* C14 as stated: once the exit flag is set the worker leaves the loop of run
\* in the end, whatever MAX_STEPS is and however long the episodes are, given
\* that every episode ends and every request is answered (a worker ended by
\* the assertion counts as gone).
C14_ExitsOnceFlagSet ==
  \A w \in {1} : (exit_flag[w] # 0) ~> (pc[w] \in {"exited", "aborted"})

\* C15 as stated: the log record of a completed episode carries a cumulative
\* step count that has grown, over the episode, by the number of action steps
\* of the episode (env.step calls with a selected action); for the first
\* episode it is that number.
C15_TotalStepsCountsActionSteps ==
  \A w \in Workers :
    (pc[w] = "loop" /\ hist[w].log # Absent) =>
      hist[w].log.total_steps = hist[w].steps_before + Len(hist[w].steps)

\* C16 as stated: the two recurrent states are not re-created or reset across
\* an episode boundary: an episode after the first starts from the states the
\* episode before left.
C16_LstmKeptAcrossEpisodes ==
  [][\A w \in Workers :
       (pc[w] = "loop" /\ pc'[w] = "step" /\ hist[w].episode >= 1) =>
         /\ lstm_input_p'[w] = lstm_input_p[w]
         /\ lstm_input_t'[w] = lstm_input_t[w]]_vars

\* the recurrent state after n answers of the service to a request chain that
\* started from zeros
LstmAfter(n) == [i \in 1 .. cfg.NUM_LSTMS |-> [c |-> n, h |-> n]]

\* C16, amended: the two recurrent states live for one episode. Every episode
\* starts both from zeros; within the episode each prediction request carries
\* the state the service returned to the request before it (zeros for the
\* first), and the first batch of the episode carries zeros.
C16_LstmPerEpisode ==
  \A w \in Workers :
    /\ \A i \in 1 .. Len(hist[w].steps) : hist[w].steps[i].lstm_in = LstmAfter(i - 1)
    /\ pc[w] \in {"step", "wait", "put"} => lstm_input_p[w] = LstmAfter(Len(hist[w].steps))
    /\ \A i \in 1 .. Len(prediction_q) :
         prediction_q[i].id = w =>
           prediction_q[i] = Request(w, env[w].current_state,
                                     LstmAfter(Len(hist[w].steps)))
    /\ Len(hist[w].batches) >= 1 => hist[w].batches[1].lstm_ = LstmAfter(0)
    /\ (pc[w] \in {"step", "wait"} /\ hist[w].batches = <<>>) =>
         lstm_input_t[w] = LstmAfter(0)

\* the second episode of a worker with one recurrent layer, two requests made
C16_Witness ==
  \E w \in Workers :
    /\ cfg.NUM_LSTMS = 1 /\ hist[w].episode = 2 /\ Len(hist[w].steps) = 2
    /\ hist[w].steps[1].lstm_in = <<[c |-> 0, h |-> 0]>>
    /\ hist[w].steps[2].lstm_in = <<[c |-> 1, h |-> 1]>>
    /\ Len(hist[w].batches) >= 1

\* C17: at a cut the window is the last action steps of the episode; at a
\* non-terminal cut every emitted reward is the discounted sum of the clipped
\* raw rewards of the steps from its own to the last but one, plus the
\* discounted value estimate of the latest response, which is the service's
\* answer for the observation of the last buffered experience; at a terminal
\* cut every emitted reward is the discounted sum up to the last step and the
\* value estimate plays no part.
C17_BootstrapIsLatestValue ==
  \A w \in Workers :
    pc[w] = "put" =>
      LET steps == hist[w].steps
          L == Len(steps)
          n == Len(experiences[w])
          r_ == yielded[w].r_
          last == experiences[w][n]
      IN /\ n <= L
         /\ last.state = steps[L].state
         /\ steps[L].value = Answer(last.state).v
         /\ value[w] = steps[L].value
         /\ IF is_running[w]
            THEN /\ Len(r_) = n - 1
                 /\ \A t \in 1 .. n - 1 :
                      r_[t] = DiscountedSum(steps, L - n + t, L - 1, cfg.DISCOUNT,
                                            Answer(last.state).v)
            ELSE /\ Len(r_) = n
                 /\ \A t \in 1 .. n :
                      r_[t] = DiscountedSum(steps, L - n + t, L, cfg.DISCOUNT, 0)

\* a non-terminal cut of a later segment, the latest value estimate being 5 and
\* the one before -1
C17_Witness ==
  \E w \in Workers :
    /\ pc[w] = "put" /\ is_running[w] /\ Len(hist[w].batches) >= 1
    /\ Len(hist[w].steps) >= 3
    /\ hist[w].steps[Len(hist[w].steps)].value = 5
    /\ hist[w].steps[Len(hist[w].steps) - 1].value = -1
    /\ hist[w].steps[Len(hist[w].steps) - 1].reward = 3
    /\ yielded[w].r_[Len(yielded[w].r_)] = 2 * 5 + ClippedReward(3)

\* the batches of the current episode, the one waiting to be put included
BatchSizes(w) ==
  [i \in 1 .. Len(hist[w].batches) |->
     [running |-> hist[w].batches[i].running, window |-> hist[w].batches[i].window,
      size |-> Len(hist[w].batches[i].x_), rewards |-> Len(hist[w].batches[i].r_),
      actions |-> Len(hist[w].batches[i].a_)]]
  \o (IF pc[w] = "put"
      THEN <<[running |-> is_running[w], window |-> Len(experiences[w]),
              size |-> Len(yielded[w].x_), rewards |-> Len(yielded[w].r_),
              actions |-> Len(yielded[w].a_)]>>
      ELSE <<>>)

\* C18: with TIME_MAX >= 1, a batch cut while the episode runs holds exactly
\* TIME_MAX experiences, in the first segment and in the later ones, out of a
\* window of TIME_MAX + 1; a batch cut at the end of the episode holds the
\* whole window, between 1 and TIME_MAX + 1 experiences; so no batch is
\* empty and no window of one experience is accumulated while the episode runs.
C18_BatchSizes ==
  \A w \in Workers :
    \A i \in 1 .. Len(BatchSizes(w)) :
      LET b == BatchSizes(w)[i]
      IN /\ b.rewards = b.size /\ b.actions = b.size
         /\ b.size >= 1
         /\ IF b.running
            THEN b.size = cfg.TIME_MAX /\ b.window = cfg.TIME_MAX + 1
            ELSE b.size = b.window /\ b.size <= cfg.TIME_MAX + 1

\* a first batch of TIME_MAX, a second of TIME_MAX, and a last one of
\* TIME_MAX + 1 at the end of the episode
C18_Witness ==
  \E w \in Workers :
    /\ pc[w] = "put" /\ ~is_running[w] /\ Len(hist[w].batches) = 2
    /\ Len(hist[w].batches[1].x_) = cfg.TIME_MAX
    /\ Len(hist[w].batches[2].x_) = cfg.TIME_MAX
    /\ Len(yielded[w].x_) = cfg.TIME_MAX + 1

\* the sum of f over the indices lo .. hi
RECURSIVE SumOver(_, _, _)
SumOver(f, lo, hi) == IF lo > hi THEN 0 ELSE f[lo] + SumOver(f, lo + 1, hi)

\* C19: the total_length of the log record of an episode is the sum, over the
\* batches put for the episode, of the batch length plus one, which is N + S
\* for N action steps put in S batches: the last batch, which drops nothing,
\* adds its one too.
C19_LengthIsStepsPlusBatches ==
  \A w \in Workers :
    (pc[w] = "loop" /\ hist[w].log # Absent) =>
      LET bs == hist[w].batches
          sizes == [i \in 1 .. Len(bs) |-> Len(bs[i].r_) + 1]
      IN /\ hist[w].log.total_length = SumOver(sizes, 1, Len(bs))
         /\ hist[w].log.total_length = Len(hist[w].steps) + Len(bs)
         /\ ~bs[Len(bs)].running /\ Len(bs[Len(bs)].r_) = bs[Len(bs)].window

\* four action steps in three batches: a record of length seven
C19_Witness ==
  \E w \in Workers :
    /\ pc[w] = "loop" /\ hist[w].log # Absent
    /\ Len(hist[w].steps) = 4 /\ Len(hist[w].batches) = 3
    /\ hist[w].log.total_length = 7

\* C20: the total_reward of the log record of an episode is the sum of the raw
\* rewards of its action steps, each once, whatever the clipping and the
\* overwriting of the buffered rewards do: at every moment of the episode the
\* rewards counted so far (total_reward, plus reward_sum while the segment is
\* open) are the raw rewards of the steps so far, the reward_sum yielded at a
\* cut is that of the steps taken since the cut before, the trailer's reward
\* being counted in the segment that received it, and reward_sum is 0 after
\* every cut.
C20_RewardIsSumOfRawRewards ==
  \A w \in Workers :
    LET steps == hist[w].steps
        raw == [i \in 1 .. Len(steps) |-> steps[i].reward]
        bs == hist[w].batches
        put == SumOver([i \in 1 .. Len(bs) |-> Len(bs[i].x_)], 1, Len(bs))
        fresh == IF Len(bs) = 0 THEN 0 ELSE put + 1
    IN /\ pc[w] \in {"step", "wait"} =>
            /\ total_reward[w] + reward_sum[w] = SumOver(raw, 1, Len(steps))
            /\ reward_sum[w] = SumOver(raw, fresh + 1, Len(steps))
       /\ pc[w] = "put" =>
            /\ total_reward[w] = SumOver(raw, 1, Len(steps))
            /\ yielded[w].reward_sum = SumOver(raw, fresh + 1, Len(steps))
       /\ (pc[w] = "loop" /\ hist[w].log # Absent) =>
            hist[w].log.total_reward = SumOver(raw, 1, Len(steps))

\* an episode under clipping whose rewards 3, 0, 3 come in two batches
C20_Witness ==
  \E w \in Workers :
    /\ pc[w] = "loop" /\ hist[w].log # Absent /\ cfg.REWARD_CLIPPING
    /\ Len(hist[w].steps) = 3 /\ Len(hist[w].batches) = 2
    /\ hist[w].steps[1].reward = 3 /\ hist[w].steps[2].reward = 0
    /\ hist[w].steps[3].reward = 3
    /\ hist[w].batches[1].r_[1] # 3
    /\ hist[w].log.total_reward = 6

\* a worker that has left run, by the end of its loop or by the assertion
Gone(w) == pc[w] \in {"exited", "aborted"}

\* a step of a worker, of the service or of a consumer
Progress ==
  \/ \E w \in Workers : LoopCheck(w) \/ Noop(w) \/ PredictPut(w) \/ PredictGet(w)
                          \/ PutTraining(w) \/ PutEpisodeLog(w)
  \/ ServerTake \/ ServerAnswer \/ TrainerTake \/ StatsTake

\* no deadlock: in every state in which some worker has not left run, a
\* worker, the service or a consumer can take a step
NoDeadlock == []((\E w \in ConcWorkers : ~Gone(w)) => ENABLED Progress)

\* a worker waiting in predict gets its answer
PredictProceeds == \A w \in ConcWorkers : []<>(pc[w] # "wait")

\* a worker waiting to put a batch or its log record puts it
PutProceeds ==
  \A w \in ConcWorkers :
    /\ []<>(pc[w] # "put")
    /\ []<>~(pc[w] = "step" /\ ~is_running[w])

\* C11 as stated: with several workers on the shared queues, a service that
\* answers every request once on the requester's queue and consumers that
\* drain the sinks, no state is a deadlock unless every worker has left run,
\* and under fair scheduling no worker waits for ever, neither in predict nor
\* in a put on the training queue or the log queue.
C11_NoDeadlockNoStarvation == NoDeadlock /\ PredictProceeds /\ PutProceeds

\* a worker waiting to put is held up by the messages of other workers only:
\* the consumers make room again and again, and a worker that waits for ever
\* finds the queue full again and again
PutsHeldByOthersOnly ==
  /\ []<>(Len(training_q) < QueueCap)
  /\ []<>(Len(episode_log_q) < QueueCap)
  /\ \A w \in ConcWorkers :
       /\ []<>(pc[w] # "put" \/ Len(training_q) >= QueueCap)
       /\ []<>(~(pc[w] = "step" /\ ~is_running[w]) \/ Len(episode_log_q) >= QueueCap)

\* C11, amended: no state is a deadlock unless every worker has left run, and
\* under fair scheduling a worker waiting in predict gets its answer. A worker
\* waiting to put a batch or a log record is not stuck, the queue gets room
\* again and again, but nothing orders the workers that wait for room, so it
\* goes on only if the others do not take the room every time.
C11_NoDeadlockPutsMayBeOvertaken ==
  NoDeadlock /\ PredictProceeds /\ PutsHeldByOthersOnly

\* worker 1 waits for room on the training queue, which holds a batch of
\* worker 2, while worker 2 waits in predict
C11_Witness ==
  /\ pc[1] = "put" /\ Len(training_q) = QueueCap /\ training_q[1].id = 2
  /\ pc[2] = "wait" /\ Len(wait_q[2]) = 0

====
